---------------------------- MODULE Spec2Model ----------------------------
(***************************************************************************)
(* A model of ahs (src/ahs.go): the run of the `instance-id` and           *)
(* `sequential` commands on the EC2 instances of one group, the tag store  *)
(* they share, and the pure functions the run is built from.               *)
(*                                                                         *)
(* Strings are sequences of one-character strings, so that slicing,        *)
(* regular-expression matching, strconv.Atoi and strconv.Itoa are computed *)
(* character by character as the Go code computes them.  Durations are in  *)
(* milliseconds.  `int` is the 32-bit int of the linux/386 build           *)
(* (src/Makefile:38); the amd64 and arm64 builds behave alike with a       *)
(* larger limit.                                                           *)
(***************************************************************************)
EXTENDS Integers, Sequences, FiniteSets, TLC

VARIABLES
    cfg,            \* the flags of the command line (cli.Context)
    tags,           \* the tag store: tags[i][key] is the sequence of the
                    \* values listed for the key, <<>> or <<value>>
    hostname,       \* hostname[i]: the system hostname of instance i
    pc,             \* pc[i]: where the run of instance i stands in run()
    v,              \* v[i]: the Values struct of the run
    attempt,        \* attempt[i]: the attempt counter of p.Backoff
    d,              \* d[i]: the last duration p.Backoff.Duration() returned
    instanceGroup,  \* instanceGroup[i]: local of computeSequentialHostname
    used,           \* used[i]: local of findAvailableNumberInInstanceGroup
    calls,          \* calls[i]: the remote and system calls the run has made
    runs,           \* runs[i]: how many runs instance i has started
    atStart,        \* atStart[i]: the tags and hostname of i as its run began
    arg,            \* the arguments of a pure function under test
    ret             \* <<>> or <<its result>>

vars == <<cfg, tags, hostname, pc, v, attempt, d, instanceGroup, used, calls,
          runs, atStart, arg, ret>>

runVars == <<cfg, tags, hostname, pc, v, attempt, d, instanceGroup, used,
             calls, runs, atStart>>

-----------------------------------------------------------------------------
(* Bounds of the model.                                                    *)

MaxBaseLen == 2

MaxUsedLen == 3

MaxLength == 3

MaxAttempts == 13

MaxRuns == 2

MaxAZLen == 8

-----------------------------------------------------------------------------
(* Characters and strings.                                                 *)

Alphabet == {"a", "-", "0", "1"}

Digits == {"0", "1", "2", "3", "4", "5", "6", "7", "8", "9"}

DigitValue(c) ==
    CASE c = "0" -> 0 [] c = "1" -> 1 [] c = "2" -> 2 [] c = "3" -> 3
      [] c = "4" -> 4 [] c = "5" -> 5 [] c = "6" -> 6 [] c = "7" -> 7
      [] c = "8" -> 8 [] c = "9" -> 9

DigitChar(n) ==
    CASE n = 0 -> "0" [] n = 1 -> "1" [] n = 2 -> "2" [] n = 3 -> "3"
      [] n = 4 -> "4" [] n = 5 -> "5" [] n = 6 -> "6" [] n = 7 -> "7"
      [] n = 8 -> "8" [] n = 9 -> "9"

StringsUpTo(n) == UNION {[1..k -> Alphabet] : k \in 0..n}

None == <<>>

Some(x) == <<x>>

\* Go's s[lo:hi] on a string of length n is a runtime panic unless
\* 0 <= lo <= hi <= n.
SliceInRange(n, lo, hi) == 0 <= lo /\ lo <= hi /\ hi <= n

Slice(s, lo, hi) == SubSeq(s, lo + 1, hi)

-----------------------------------------------------------------------------
(* strconv.Itoa and strconv.Atoi.                                          *)

MaxInt == 2147483647

RECURSIVE NatDigits(_)
NatDigits(n) ==
    IF n < 10 THEN <<DigitChar(n)>>
    ELSE NatDigits(n \div 10) \o <<DigitChar(n % 10)>>

Itoa(n) == IF n < 0 THEN <<"-">> \o NatDigits(-n) ELSE NatDigits(n)

IsDigits(s) == \A k \in 1..Len(s) : s[k] \in Digits

RECURSIVE StripZeros(_)
StripZeros(s) ==
    IF Len(s) > 1 /\ s[1] = "0" THEN StripZeros(Tail(s)) ELSE s

\* a <= b for two digit strings without leading zeros
RECURSIVE DigitsLeq(_, _)
DigitsLeq(a, b) ==
    IF Len(a) # Len(b) THEN Len(a) < Len(b)
    ELSE IF Len(a) = 0 THEN TRUE
    ELSE IF a[1] # b[1] THEN DigitValue(a[1]) < DigitValue(b[1])
    ELSE DigitsLeq(Tail(a), Tail(b))

RECURSIVE DigitsValue(_)
DigitsValue(s) ==
    IF Len(s) = 0 THEN 0
    ELSE 10 * DigitsValue(SubSeq(s, 1, Len(s) - 1)) + DigitValue(s[Len(s)])

\* strconv.Atoi: an optional sign and decimal digits; (0, syntax error) on
\* anything else, (the nearest limit, range error) when the value does not
\* fit an int.
Atoi(s) ==
    LET signed == Len(s) > 0 /\ s[1] \in {"+", "-"}
        neg    == Len(s) > 0 /\ s[1] = "-"
        body   == IF signed THEN Tail(s) ELSE s
        fits   == DigitsLeq(StripZeros(body), Itoa(MaxInt))
    IN  IF Len(body) = 0 \/ ~IsDigits(body)
        THEN [val |-> 0, err |-> "syntax"]
        ELSE IF neg /\ StripZeros(body) = NatDigits(MaxInt \div 10) \o <<"8">>
        THEN [val |-> (-MaxInt) - 1, err |-> "nil"]
        ELSE IF ~fits
        THEN [val |-> IF neg THEN (-MaxInt) - 1 ELSE MaxInt, err |-> "range"]
        ELSE [val |-> IF neg THEN -DigitsValue(body) ELSE DigitsValue(body),
              err |-> "nil"]

-----------------------------------------------------------------------------
(* sort.Ints and the scan of findAvailableNumberInInstanceGroup.           *)

RECURSIVE Insert(_, _)
Insert(x, s) ==
    IF Len(s) = 0 THEN <<x>>
    ELSE IF x <= s[1] THEN <<x>> \o s
    ELSE <<s[1]>> \o Insert(x, Tail(s))

RECURSIVE SortInts(_)
SortInts(s) == IF Len(s) = 0 THEN <<>> ELSE Insert(s[1], SortInts(Tail(s)))

\* no gap is filled: always one more than the number of ids in use
FirstGapNeverFilled(usedInts) == Len(usedInts) + 1

\* lines 407-414: sort, then the first 0-based index i with used[i] # i+1
\* gives i+1; len(used)+1 when there is none.
FirstGap(usedInts) ==
    LET sorted == SortInts(usedInts)
        gaps   == {i \in 0..(Len(sorted) - 1) : sorted[i + 1] # i + 1}
    IN  IF gaps = {} THEN Len(sorted) + 1
        ELSE (CHOOSE i \in gaps : \A j \in gaps : i <= j) + 1


-----------------------------------------------------------------------------
(* The instances, the flags and the tags.                                  *)

Instances == {1, 2}

\* what the metadata service answers for "instance-id"
InstanceIDOf(i) == IF i = 1 THEN <<"i", "-", "a", "1">>
                   ELSE <<"i", "-", "0", "a">>

Separators == {<<"-">>, <<>>, <<".">>}

Commands == {"instance-id", "sequential"}

InputTagName == "Name"

OutputTagNames == {"Name", "Hostname"}

GroupTagName == "group"

SequentialIDTagName == "sequential-id"

TagKeys == OutputTagNames \cup {InputTagName, GroupTagName, SequentialIDTagName}

Flags ==
    [command         : Commands,
     dryRun          : BOOLEAN,
     inputTag        : {InputTagName},
     outputTag       : OutputTagNames,
     separator       : Separators,
     length          : 0..MaxLength,
     groupTag        : {GroupTagName},
     sequentialIDTag : {SequentialIDTagName}]

\* a run that takes the dry-run flag for unset
DryRunIgnored == FALSE

\* ctx.GlobalBool("dry-run"), line 152
DryRun == cfg.dryRun

\* the switch of lines 139-146
IsSequential == cfg.command = "sequential"

\* a run that writes the sequential-id tag whatever the command
WritesSequentialIDAlways == TRUE

\* ctx.Command.FullName() == "sequential", line 163
WritesSequentialID == cfg.command = "sequential"

-----------------------------------------------------------------------------
(* The Backoff of run(): Min 100ms, Max 120s, Factor 2, no jitter.         *)

BackoffMin == 100

BackoffMax == 120000

BackoffFactor == 2

\* the duration line 128 compares the backoff with: 60 * time.Second
GiveUpDuration == 60000

RECURSIVE Pow(_, _)
Pow(b, n) == IF n = 0 THEN 1 ELSE b * Pow(b, n - 1)

\* a backoff without the cap
ForAttemptUncapped(n) == BackoffMin * Pow(BackoffFactor, n)

\* Backoff.ForAttempt: Min * Factor^attempt, kept within [Min, Max]
ForAttempt(n) ==
    LET dur == BackoffMin * Pow(BackoffFactor, n)
    IN  IF dur < BackoffMin THEN BackoffMin
        ELSE IF dur > BackoffMax THEN BackoffMax
        ELSE dur

-----------------------------------------------------------------------------
(* The region of the instance.                                             *)

\* what the metadata service may answer for placement/availability-zone
RunAZs == {<<"e", "u", "-", "w", "e", "s", "t", "-", "1", "a">>,
           <<"i", "n", "v", "a", "l", "i", "d">>}

LowerLetters ==
    {"a", "b", "c", "d", "e", "f", "g", "h", "i", "j", "k", "l", "m",
     "n", "o", "p", "q", "r", "s", "t", "u", "v", "w", "x", "y", "z"}

\* the regexp "[a-z]{2}-[a-z]+-\d" matches s from position p on, the
\* [a-z]+ taking k letters: the match ends at position p + k + 4
RegionAt(s, p, k) ==
    /\ p >= 1 /\ k >= 1 /\ p + k + 4 <= Len(s)
    /\ s[p] \in LowerLetters /\ s[p + 1] \in LowerLetters
    /\ s[p + 2] = "-"
    /\ \A m \in (p + 3)..(p + 2 + k) : s[m] \in LowerLetters
    /\ s[p + k + 3] = "-"
    /\ s[p + k + 4] \in Digits

\* re.MatchString of line 193: the regexp has no ^ and no $, it matches
\* when some substring of the string matches
MatchesRegion(region) ==
    \E p \in 1..Len(region), k \in 1..Len(region) : RegionAt(region, p, k)

\* re.MatchString of line 213, regexp "[a-z]{2}-[a-z]+-\d[a-z]", unanchored
MatchesAZ(az) ==
    \E p \in 1..Len(az), k \in 1..Len(az) :
        /\ RegionAt(az, p, k)
        /\ p + k + 5 <= Len(az)
        /\ az[p + k + 5] \in LowerLetters

\* lines 211-221
computeRegionFromAZ(az) ==
    IF ~MatchesAZ(az)
    THEN [region |-> <<>>, err |-> "invalid availability-zone"]
    ELSE [region |-> Slice(az, 0, Len(az) - 1), err |-> "nil"]

\* lines 191-202: the error of getAWSEC2Client
getAWSEC2Client(region) ==
    IF ~MatchesRegion(region) THEN "invalid region" ELSE "nil"

-----------------------------------------------------------------------------
(* The hostname strategies.                                                *)

\* lines 295-307.  Both operands of the comparison of line 298 are sliced
\* before they are compared: an out-of-range slice is a runtime panic.
computeHostnameWithInstanceID(base, instanceID, separator, length) ==
    IF \/ ~SliceInRange(Len(base), Len(base) - length, Len(base))
       \/ ~SliceInRange(Len(instanceID), 2, 2 + length)
    THEN [hostname |-> <<>>, err |-> "nil", panic |-> TRUE]
    ELSE IF Slice(base, Len(base) - length, Len(base))
              = Slice(instanceID, 2, 2 + length)
    THEN [hostname |-> base, err |-> "nil", panic |-> FALSE]
    ELSE [hostname |-> base \o separator \o Slice(instanceID, 2, 2 + length),
          err |-> "nil", panic |-> FALSE]

\* the longest run of digits that ends the string
RECURSIVE TrailingDigits(_)
TrailingDigits(s) ==
    IF Len(s) = 0 \/ s[Len(s)] \notin Digits THEN <<>>
    ELSE TrailingDigits(SubSeq(s, 1, Len(s) - 1)) \o <<s[Len(s)]>>

\* the regexp ".+-(\d+)$": at least one character before the '-'
MatchesSequentialSuffixAfterPrefix(base) ==
    LET n == Len(TrailingDigits(base))
    IN  n > 0 /\ Len(base) > n + 1 /\ base[Len(base) - n] = "-"

\* regexp ".*-(\d+)$", line 312: the string ends with '-' and one or more
\* digits.  The group (\d+) is then the whole trailing run of digits.
MatchesSequentialSuffix(base) ==
    LET n == Len(TrailingDigits(base))
    IN  n > 0 /\ Len(base) > n /\ base[Len(base) - n] = "-"

\* re.FindStringSubmatch(base)[1], line 314
SequentialSuffix(base) == TrailingDigits(base)

\* lines 390-405: the values of the sequential-id tag of the instances whose
\* group tag has the value instanceGroup, in the order of the listing
RECURSIVE GroupTagValues(_, _, _)
GroupTagValues(store, instanceGroup_, n) ==
    IF n = 0 THEN <<>>
    ELSE GroupTagValues(store, instanceGroup_, n - 1) \o
         (IF store[n][GroupTagName] = Some(instanceGroup_)
          THEN store[n][SequentialIDTagName] ELSE <<>>)

\* a value that does not parse counts as 0
AtoiAllLenient(values) ==
    [k \in 1..Len(values) |-> [val |-> Atoi(values[k]).val, err |-> "nil"]]

\* strconv.Atoi of each value, lines 395-400
AtoiAll(values) == [k \in 1..Len(values) |-> Atoi(values[k])]

\* a conditional write: nothing is written when another instance already
\* holds the value under the same tag
setTagValueUnlessTaken(instanceID, tag, value) ==
    IF \E j \in Instances \ {instanceID} : tags[j][tag] = Some(value)
    THEN tags
    ELSE [tags EXCEPT ![instanceID][tag] = Some(value)]

\* a write that is lost
setTagValueDropped(instanceID, tag, value) == tags

\* CreateTags, lines 279-293: creates or overwrites one tag of one instance
setTagValue(instanceID, tag, value) ==
    [tags EXCEPT ![instanceID][tag] = Some(value)]


-----------------------------------------------------------------------------
(* run(), lines 50-178, one action per remote or system call.              *)

\* lines 85-92
InitialValues ==
    [AZ |-> <<>>, Base |-> <<>>, Hostname |-> <<>>, InstanceID |-> <<>>,
     Region |-> <<>>, SequentialID |-> -1]

Called(i, op, ok) == calls' = [calls EXCEPT ![i] = @ \cup {[op |-> op, ok |-> ok]}]

Goto(i, where) == pc' = [pc EXCEPT ![i] = where]

\* the output tag is written without the hostname having been set
AfterComputeTagFirst == IF DryRun THEN "done" ELSE "setOutputTag"

\* line 152: what follows a computed hostname
AfterCompute == IF DryRun THEN "done" ELSE "setHostname"

\* a process without memory: Params and Values as lines 68-92 build them
FreshProcess(i) ==
    /\ v' = [v EXCEPT ![i] = InitialValues]
    /\ attempt' = [attempt EXCEPT ![i] = 0]
    /\ d' = [d EXCEPT ![i] = 0]
    /\ instanceGroup' = [instanceGroup EXCEPT ![i] = <<>>]
    /\ used' = [used EXCEPT ![i] = <<>>]
    /\ calls' = [calls EXCEPT ![i] = {}]

\* the process starts: lines 50-97
Start(i) ==
    /\ pc[i] = "boot"
    /\ Goto(i, "getAZ")
    /\ FreshProcess(i)
    /\ runs' = [runs EXCEPT ![i] = @ + 1]
    /\ atStart' = [atStart EXCEPT ![i] = [tags |-> tags[i], hostname |-> hostname[i]]]
    /\ UNCHANGED <<cfg, tags, hostname, arg, ret>>

\* lines 99-115: the availability zone, from the metadata service, the
\* region computed from it, and the EC2 client for that region
GetInstanceAZ(i) ==
    /\ pc[i] = "getAZ"
    /\ \E ok \in BOOLEAN, az \in RunAZs :
          LET r == computeRegionFromAZ(az)
          IN  /\ Called(i, "GetMetadata:availability-zone", ok)
              /\ v' = [v EXCEPT ![i].AZ = IF ok THEN az ELSE <<>>,
                                ![i].Region = IF ok THEN r.region ELSE <<>>]
              /\ Goto(i, IF ok /\ r.err = "nil" /\ getAWSEC2Client(r.region) = "nil"
                         THEN "getInstanceID" ELSE "fatal")
    /\ UNCHANGED <<cfg, tags, hostname, attempt, d, instanceGroup, used,
                   runs, atStart, arg, ret>>

\* lines 117-121
GetInstanceID(i) ==
    /\ pc[i] = "getInstanceID"
    /\ \E ok \in BOOLEAN :
          /\ Called(i, "GetMetadata:instance-id", ok)
          /\ Goto(i, IF ok THEN "getBase" ELSE "fatal")
          /\ v' = [v EXCEPT ![i].InstanceID = IF ok THEN InstanceIDOf(i) ELSE <<>>]
    /\ UNCHANGED <<cfg, tags, hostname, attempt, d, instanceGroup, used,
                   runs, atStart, arg, ret>>

\* lines 124-137, one turn of the loop: getBaseFromInputTag (lines 230-259)
\* fails when the API call fails or the instance has no input tag
GetBaseFromInputTag(i) ==
    /\ pc[i] = "getBase"
    /\ \E apiOK \in BOOLEAN :
          LET ok  == apiOK /\ tags[i][cfg.inputTag] # None
              dur == ForAttempt(attempt[i])
          IN  /\ Called(i, "DescribeInstances:input-tag", ok)
              /\ IF ok
                 THEN /\ v' = [v EXCEPT ![i].Base = tags[i][cfg.inputTag][1]]
                      /\ attempt' = [attempt EXCEPT ![i] = 0]
                      /\ d' = [d EXCEPT ![i] = 0]
                      /\ Goto(i, "compute")
                 ELSE /\ attempt[i] < MaxAttempts
                      /\ v' = [v EXCEPT ![i].Base = <<>>]
                      /\ attempt' = [attempt EXCEPT ![i] = @ + 1]
                      /\ d' = [d EXCEPT ![i] = dur]
                      /\ Goto(i, IF dur = GiveUpDuration THEN "fatal" ELSE "sleep")
    /\ UNCHANGED <<cfg, tags, hostname, instanceGroup, used, runs, atStart,
                   arg, ret>>

\* line 132: time.Sleep(d)
Sleep(i) ==
    /\ pc[i] = "sleep"
    /\ Goto(i, "getBase")
    /\ UNCHANGED <<cfg, tags, hostname, v, attempt, d, instanceGroup, used,
                   calls, runs, atStart, arg, ret>>

\* lines 139-150, with the part of computeSequentialHostname that makes no
\* remote call (lines 312-318)
Compute(i) ==
    /\ pc[i] = "compute"
    /\ IF ~IsSequential
       THEN LET r == computeHostnameWithInstanceID(v[i].Base, v[i].InstanceID,
                                                   cfg.separator, cfg.length)
            IN  /\ v' = [v EXCEPT ![i].Hostname = r.hostname]
                /\ Goto(i, IF r.panic THEN "panic"
                           ELSE IF r.err # "nil" THEN "fatal" ELSE AfterCompute)
       ELSE IF MatchesSequentialSuffix(v[i].Base)
       THEN LET a == Atoi(SequentialSuffix(v[i].Base))
            IN  /\ v' = [v EXCEPT ![i].Hostname = v[i].Base,
                                  ![i].SequentialID = a.val]
                /\ Goto(i, IF a.err # "nil" THEN "fatal" ELSE AfterCompute)
       ELSE /\ v' = v
            /\ Goto(i, "findGroup")
    /\ UNCHANGED <<cfg, tags, hostname, attempt, d, instanceGroup, used, calls,
                   runs, atStart, arg, ret>>

\* more than one tag is taken for one: the first value is used
SomeTagRetrieved(found) == Len(found) >= 1

\* line 365: len(tags.Tags) != 1 is an error
OneTagRetrieved(found) == Len(found) = 1

\* findInstanceGroupTagValue, lines 336-371, and lines 320-323
FindInstanceGroupTagValue(i) ==
    /\ pc[i] = "findGroup"
    /\ \E apiOK \in BOOLEAN :
          LET found == tags[i][cfg.groupTag]
              ok    == apiOK /\ OneTagRetrieved(found)
          IN  /\ Called(i, "DescribeTags:group", apiOK)
              /\ instanceGroup' = [instanceGroup EXCEPT ![i] = IF ok THEN found ELSE <<>>]
              /\ v' = IF ok THEN v
                      ELSE [v EXCEPT ![i].Hostname = <<>>, ![i].SequentialID = -1]
              /\ Goto(i, IF ok THEN "findAvailable" ELSE "fatal")
    /\ UNCHANGED <<cfg, tags, hostname, attempt, d, used, runs, atStart, arg, ret>>

\* findAvailableNumberInInstanceGroup, lines 373-415, and lines 325-333
FindAvailableNumberInInstanceGroup(i) ==
    /\ pc[i] = "findAvailable"
    /\ \E apiOK \in BOOLEAN :
          LET values == GroupTagValues(tags, instanceGroup[i][1], Cardinality(Instances))
              parsed == AtoiAll(values)
              ok     == apiOK /\ \A k \in 1..Len(parsed) : parsed[k].err = "nil"
              ints   == [k \in 1..Len(parsed) |-> parsed[k].val]
              id     == FirstGap(ints)
          IN  /\ Called(i, "DescribeInstances:group", apiOK)
              /\ IF ok
                 THEN /\ used' = [used EXCEPT ![i] = SortInts(ints)]
                      /\ v' = [v EXCEPT ![i].Hostname =
                                            v[i].Base \o cfg.separator \o Itoa(id),
                                        ![i].SequentialID = id]
                      /\ Goto(i, AfterCompute)
                 ELSE /\ used' = used
                      /\ v' = [v EXCEPT ![i].Hostname = <<>>, ![i].SequentialID = -1]
                      /\ Goto(i, "fatal")
    /\ UNCHANGED <<cfg, tags, hostname, attempt, d, instanceGroup, runs, atStart,
                   arg, ret>>

\* lines 153-156: syscall.Sethostname
SetSystemHostname(i) ==
    /\ pc[i] = "setHostname"
    /\ \E ok \in BOOLEAN :
          /\ Called(i, "Sethostname", ok)
          /\ hostname' = IF ok THEN [hostname EXCEPT ![i] = v[i].Hostname] ELSE hostname
          /\ Goto(i, IF ok THEN "setOutputTag" ELSE "fatal")
    /\ UNCHANGED <<cfg, tags, v, attempt, d, instanceGroup, used, runs, atStart,
                   arg, ret>>

\* lines 158-161
SetOutputTag(i) ==
    /\ pc[i] = "setOutputTag"
    /\ \E ok \in BOOLEAN :
          /\ Called(i, "CreateTags:output", ok)
          /\ tags' = IF ok THEN setTagValue(i, cfg.outputTag, v[i].Hostname) ELSE tags
          /\ Goto(i, IF ~ok THEN "fatal"
                     ELSE IF WritesSequentialID THEN "setSequentialIDTag" ELSE "done")
    /\ UNCHANGED <<cfg, hostname, v, attempt, d, instanceGroup, used, runs,
                   atStart, arg, ret>>

\* lines 163-168
SetSequentialIDTag(i) ==
    /\ pc[i] = "setSequentialIDTag"
    /\ \E ok \in BOOLEAN :
          /\ Called(i, "CreateTags:sequential-id", ok)
          /\ tags' = IF ok THEN setTagValue(i, cfg.sequentialIDTag, Itoa(v[i].SequentialID))
                     ELSE tags
          /\ Goto(i, IF ok THEN "done" ELSE "fatal")
    /\ UNCHANGED <<cfg, hostname, v, attempt, d, instanceGroup, used, runs,
                   atStart, arg, ret>>

\* the process has returned from run() (or panicked) and ends: its memory
\* is gone, the tags and the hostname stay
Exit(i) ==
    /\ pc[i] \in {"done", "fatal", "panic"}
    /\ Goto(i, "exited")
    /\ FreshProcess(i)
    /\ atStart' = [atStart EXCEPT ![i] = [tags |-> tags[i], hostname |-> hostname[i]]]
    /\ UNCHANGED <<cfg, tags, hostname, runs, arg, ret>>

\* the instance boots again and its provisioning script runs the command anew
Reboot(i) ==
    /\ pc[i] = "exited"
    /\ runs[i] < MaxRuns
    /\ Goto(i, "boot")
    /\ UNCHANGED <<cfg, tags, hostname, v, attempt, d, instanceGroup, used,
                   calls, runs, atStart, arg, ret>>

Step(i) ==
    \/ Start(i)
    \/ GetInstanceAZ(i)
    \/ GetInstanceID(i)
    \/ GetBaseFromInputTag(i)
    \/ Sleep(i)
    \/ Compute(i)
    \/ FindInstanceGroupTagValue(i)
    \/ FindAvailableNumberInInstanceGroup(i)
    \/ SetSystemHostname(i)
    \/ SetOutputTag(i)
    \/ SetSequentialIDTag(i)


-----------------------------------------------------------------------------
(* The initial states.                                                     *)

GroupValue == <<"g">>

\* a DescribeTags answer with two tags for the group key
AmbiguousGroup == <<GroupValue, <<"h">>>>

BootHostname == <<"i", "p">>

\* input-tag values beyond MaxBaseLen: two digits, the largest int, and the
\* first value that does not fit an int
LongBases ==
    {<<"a", "-", "1", "0">>,
     <<"a", "-">> \o Itoa(MaxInt),
     <<"a", "-">> \o NatDigits(MaxInt \div 10) \o <<"8">>}

RunBases == StringsUpTo(MaxBaseLen) \cup LongBases

\* what a peer may carry as sequential-id tag
PeerSequentialIDs ==
    {None} \cup {Some(s) : s \in {<<"1">>, <<"0">>, <<"2">>, <<"a">>, <<"-", "1">>}}

\* what the instance itself may carry as sequential-id tag when its run
\* begins; InitRun gives it one only together with the plain base "a", the
\* runs that start from what an earlier run wrote are those of SpecSerial
OwnSequentialIDs == {None, Some(<<"1">>)}

GroupBases == {<<"a">>, <<"a", "-", "1">>, <<"a", "-", "0">>}

NoTags == [k \in TagKeys |-> None]

InitLocals ==
    /\ hostname = [i \in Instances |-> BootHostname]
    /\ v = [i \in Instances |-> InitialValues]
    /\ attempt = [i \in Instances |-> 0]
    /\ d = [i \in Instances |-> 0]
    /\ instanceGroup = [i \in Instances |-> <<>>]
    /\ used = [i \in Instances |-> <<>>]
    /\ calls = [i \in Instances |-> {}]
    /\ runs = [i \in Instances |-> 0]
    /\ atStart = [i \in Instances |-> [tags |-> tags[i], hostname |-> BootHostname]]

\* one instance runs the command once; its peer of the same group does not
InitRun ==
    /\ cfg \in {f \in Flags : f.command = "sequential" => f.length = 0}
    /\ \E name \in {None} \cup {Some(b) : b \in RunBases},
          group \in {None, Some(GroupValue), AmbiguousGroup},
          peer \in PeerSequentialIDs,
          own \in OwnSequentialIDs :
          /\ IsSequential \/ (group = Some(GroupValue) /\ peer = None /\ own = None)
          /\ own # None => (name = Some(<<"a">>) /\ group = Some(GroupValue))
          /\ tags = [i \in Instances |->
                       IF i = 1
                       THEN [NoTags EXCEPT ![InputTagName] = name,
                                           ![GroupTagName] = group,
                                           ![SequentialIDTagName] = own]
                       ELSE [NoTags EXCEPT ![InputTagName] = Some(<<"a">>),
                                           ![GroupTagName] = Some(GroupValue),
                                           ![SequentialIDTagName] = peer]]
    /\ pc = [i \in Instances |-> IF i = 1 THEN "boot" ELSE "off"]
    /\ InitLocals
    /\ arg = <<>>
    /\ ret = <<>>

NextRun == \E i \in Instances : Step(i)

SpecRun == InitRun /\ [][NextRun]_vars

\* the freshly launched instances of one group, none with a sequential id
InitGroup ==
    /\ cfg \in {f \in Flags : f.length = 1 /\ f.separator = <<"-">>}
    /\ \E names \in [Instances -> GroupBases] :
          tags = [i \in Instances |->
                    [NoTags EXCEPT ![InputTagName] = Some(names[i]),
                                   ![GroupTagName] = Some(GroupValue)]]
    /\ pc = [i \in Instances |-> "boot"]
    /\ InitLocals
    /\ arg = <<>>
    /\ ret = <<>>

\* the runs of the instances interleave freely
NextGroup == \E i \in Instances : Step(i)

SpecGroup == InitGroup /\ [][NextGroup]_vars

Running(i) == pc[i] \notin {"off", "boot", "exited"}

InitSerial ==
    /\ cfg \in {f \in Flags : f.command = "sequential" /\ ~f.dryRun /\ f.length = 0}
    /\ \E names \in [Instances -> GroupBases] :
          tags = [i \in Instances |->
                    [NoTags EXCEPT ![InputTagName] = Some(names[i]),
                                   ![GroupTagName] = Some(GroupValue)]]
    /\ pc = [i \in Instances |-> "boot"]
    /\ InitLocals
    /\ arg = <<>>
    /\ ret = <<>>

\* the runs do not overlap: an instance takes a step only while no other
\* instance is within its run; an instance may boot and run again
SerialStep(i) == (\A j \in Instances \ {i} : ~Running(j)) /\ Step(i)

NextSerial == \E i \in Instances : SerialStep(i) \/ Exit(i) \/ Reboot(i)

SpecSerial == InitSerial /\ [][NextSerial]_vars

-----------------------------------------------------------------------------
(* The pure functions, applied to arguments drawn from bounded sets.       *)

UsedValues == (-1)..(MaxUsedLen + 1)

UsedLists == UNION {[1..k -> UsedValues] : k \in 0..MaxUsedLen}

AZAlphabet == {"a", "-", "1"}

\* availability-zone strings: every string over a letter, '-' and a digit,
\* and the answers of the metadata service
AZStrings == UNION {[1..k -> AZAlphabet] : k \in 0..MaxAZLen} \cup RunAZs

InitPure ==
    /\ cfg \in {f \in Flags : f.command = "sequential" /\ ~f.dryRun /\ f.length = 0
                              /\ f.outputTag = "Name" /\ f.separator = <<"-">>}
    /\ tags = [i \in Instances |-> NoTags]
    /\ pc = [i \in Instances |-> "off"]
    /\ InitLocals
    /\ \/ arg \in [fn : {"findAvailableNumber"}, used : UsedLists]
       \/ arg \in [fn : {"computeRegionFromAZ"}, az : AZStrings]
       \/ arg \in [fn : {"computeHostnameWithInstanceID"},
                   base : StringsUpTo(MaxBaseLen + 1),
                   instanceID : {InstanceIDOf(i) : i \in Instances},
                   separator : Separators,
                   length : 0..MaxLength]
    /\ ret = <<>>


ApplyFindAvailableNumber ==
    /\ arg.fn = "findAvailableNumber"
    /\ ret = <<>>
    /\ ret' = <<FirstGap(arg.used)>>
    /\ UNCHANGED <<runVars, arg>>

ApplyComputeHostnameWithInstanceID ==
    /\ arg.fn = "computeHostnameWithInstanceID"
    /\ ret = <<>>
    /\ ret' = <<computeHostnameWithInstanceID(arg.base, arg.instanceID,
                                              arg.separator, arg.length)>>
    /\ UNCHANGED <<runVars, arg>>

ApplyComputeRegionFromAZ ==
    /\ arg.fn = "computeRegionFromAZ"
    /\ ret = <<>>
    /\ ret' = <<computeRegionFromAZ(arg.az)>>
    /\ UNCHANGED <<runVars, arg>>

NextPure ==
    \/ ApplyFindAvailableNumber
    \/ ApplyComputeHostnameWithInstanceID
    \/ ApplyComputeRegionFromAZ

SpecPure == InitPure /\ [][NextPure]_vars


-----------------------------------------------------------------------------
(* The claims.  Each is stated in its own terms, not with the operators    *)
(* of the model it is checked against.                                     *)

Range(seq) == {seq[k] : k \in 1..Len(seq)}

\* the lowest positive integer that is not in the set S
LowestFree(S) ==
    CHOOSE n \in 1..(Cardinality(S) + 1) : n \notin S /\ \A m \in 1..(n - 1) : m \in S

\* the string s ends with the string t
EndsWith(s, t) == Len(t) <= Len(s) /\ SubSeq(s, Len(s) - Len(t) + 1, Len(s)) = t

\* the string ends with '-' followed by one or more digits
EndsWithDashDigits(s) ==
    \E k \in 1..(Len(s) - 1) :
        s[k] = "-" /\ \A m \in (k + 1)..Len(s) : s[m] \in Digits

\* the digits that follow the last '-' of the string
AfterLastDash(s) ==
    LET k == CHOOSE k \in 1..Len(s) : s[k] = "-" /\ \A m \in (k + 1)..Len(s) : s[m] # "-"
    IN  SubSeq(s, k + 1, Len(s))

\* the digit string ds is a decimal form of the integer n
Denotes(ds, n) == n >= 0 /\ StripZeros(ds) = NatDigits(n)

CallMade(i, op, ok) == [op |-> op, ok |-> ok] \in calls[i]

TagWrites == {"CreateTags:output", "CreateTags:sequential-id"}

TagQueries == {"DescribeTags:group", "DescribeInstances:group"}

\* the run of i has read its base and has been through the strategy
Computed(i) == CallMade(i, "DescribeInstances:input-tag", TRUE) /\ pc[i] # "compute"

\* C1: findAvailableNumberInInstanceGroup returns the lowest positive
\* integer that is not among the values read from the sequential-id tags.
C1_LowestFreeID ==
    (arg.fn = "findAvailableNumber" /\ ret # <<>>)
        => ret[1] = LowestFree(Range(arg.used))

\* C2: when the input-tag read keeps failing, the loop gives up exactly at
\* the attempt whose backoff delay equals the maximum: it never sleeps for
\* the maximum, and it exits from the loop at no other delay.
C2_GivesUpAtMaximum ==
    \A i \in Instances :
        /\ pc[i] = "sleep" => d[i] < BackoffMax
        /\ (/\ pc[i] = "fatal"
            /\ CallMade(i, "DescribeInstances:input-tag", FALSE)
            /\ ~CallMade(i, "DescribeInstances:input-tag", TRUE)) => d[i] = BackoffMax

SequentialIDsDistinct ==
    \A i, j \in Instances :
        (i # j /\ tags[i][SequentialIDTagName] # None)
            => tags[i][SequentialIDTagName] # tags[j][SequentialIDTagName]

\* C3 as stated: with runs that do not overlap, whatever the input-tag
\* values, the sequential-id tags of the group are pairwise distinct.
C3_DistinctForAnyInputTag == SequentialIDsDistinct

\* C3 as amended: with runs that do not overlap, from a group without
\* sequential-id tags, as long as no instance holds an input-tag value that
\* ends with -<digits>, the sequential-id tags are pairwise distinct.
C3_DistinctOnPeerScan ==
    (\A i \in Instances :
        tags[i][InputTagName] # None => ~EndsWithDashDigits(tags[i][InputTagName][1]))
        => SequentialIDsDistinct

C3_Witness ==
    /\ \A i \in Instances :
          /\ pc[i] = "exited"
          /\ runs[i] = 2
          /\ tags[i][SequentialIDTagName] # None
          /\ ~EndsWithDashDigits(tags[i][InputTagName][1])
    /\ SequentialIDsDistinct

\* the run of i went through the peer listing and ended with exit code zero
AllocatedByScan(i) ==
    /\ pc[i] = "done"
    /\ cfg.command = "sequential" /\ ~cfg.dryRun
    /\ CallMade(i, "DescribeInstances:group", TRUE)

\* C4: two instances that listed the same sequential ids of their group
\* (both listed before either wrote) both end their run successfully with
\* the same id written to their sequential-id tag: no lock, re-read or
\* conditional write keeps the second from claiming the id of the first.
C4_SameListingSameID ==
    \A i, j \in Instances :
        (i # j /\ AllocatedByScan(i) /\ AllocatedByScan(j) /\ used[i] = used[j])
            => /\ tags[i][SequentialIDTagName] # None
               /\ tags[i][SequentialIDTagName] = tags[j][SequentialIDTagName]

C4_Witness ==
    /\ AllocatedByScan(1) /\ AllocatedByScan(2)
    /\ used[1] = <<>> /\ used[2] = <<>>
    /\ tags[1][SequentialIDTagName] = Some(<<"1">>)
    /\ tags[2][SequentialIDTagName] = Some(<<"1">>)

\* the run of i is in sequential mode, read a base ending with -<digits>
\* and has been through computeSequentialHostname
TookSuffixPath(i) ==
    cfg.command = "sequential" /\ Computed(i) /\ EndsWithDashDigits(v[i].Base)

NoGroupQuery(i) == \A c \in calls[i] : c.op \notin TagQueries

\* C5 as stated: a base ending with -<digits> is returned unchanged with
\* the integer value of the digits, and no tag-store query is made.
C5_SuffixKeptForAnyDigits ==
    \A i \in Instances :
        TookSuffixPath(i)
            => /\ v[i].Hostname = v[i].Base
               /\ Denotes(AfterLastDash(v[i].Base), v[i].SequentialID)
               /\ NoGroupQuery(i)

FitsInt(ds) == DigitsLeq(StripZeros(ds), NatDigits(MaxInt))

\* C5 as amended: the same when the digits denote a value that fits an
\* int; when they do not, the function returns a range error, the run is
\* fatal, and still no tag-store query is made.
C5_SuffixKeptWhenInRange ==
    \A i \in Instances :
        TookSuffixPath(i)
            => /\ v[i].Hostname = v[i].Base
               /\ NoGroupQuery(i)
               /\ IF FitsInt(AfterLastDash(v[i].Base))
                  THEN Denotes(AfterLastDash(v[i].Base), v[i].SequentialID)
                  ELSE pc[i] = "fatal"

C5_Witness ==
    \E i \in Instances :
        /\ TookSuffixPath(i)
        /\ pc[i] = "done"
        /\ v[i].Base = <<"a", "-", "1", "0">>
        /\ v[i].SequentialID = 10


\* C6: for a length N within the usable part of the instance ID, the
\* instance-id strategy returns the base unchanged when the base ends with
\* the N characters of the instance ID from offset 2, base + separator +
\* those characters otherwise, and maps its own result to itself.
C6_SuffixOnceForEveryBase ==
    (/\ arg.fn = "computeHostnameWithInstanceID"
     /\ ret # <<>>
     /\ arg.length <= Len(arg.instanceID) - 2)
        => LET suffix == SubSeq(arg.instanceID, 3, 2 + arg.length)
               again  == computeHostnameWithInstanceID(ret[1].hostname, arg.instanceID,
                                                       arg.separator, arg.length)
           IN  /\ ~ret[1].panic
               /\ ret[1].err = "nil"
               /\ ret[1].hostname = IF EndsWith(arg.base, suffix) THEN arg.base
                                    ELSE arg.base \o arg.separator \o suffix
               /\ ~again.panic
               /\ again.hostname = ret[1].hostname

\* C7: with a length longer than the part of the instance ID after its
\* 2-character prefix, the instance-id run ends with a fatal exit: it does
\* not panic, sets no hostname and writes no tag.
C7_LengthTooLongIsFatal ==
    \A i \in Instances :
        (/\ cfg.command = "instance-id"
         /\ cfg.length > Len(InstanceIDOf(i)) - 2
         /\ Computed(i))
            => /\ pc[i] = "fatal"
               /\ hostname[i] = atStart[i].hostname
               /\ tags[i] = atStart[i].tags

\* C8: a dry run, of either command and on every path, never sets the
\* hostname and never writes a tag: the hostname and the tags of every
\* instance stay what they were when the run began.
C8_DryRunWritesNothing ==
    cfg.dryRun
        => \A i \in Instances :
              /\ hostname[i] = atStart[i].hostname
              /\ tags[i] = atStart[i].tags
              /\ \A c \in calls[i] : c.op \notin TagWrites \cup {"Sethostname"}

C8_Witness ==
    \E i \in Instances :
        /\ cfg.dryRun /\ cfg.command = "sequential"
        /\ pc[i] = "done"
        /\ v[i].Hostname = <<"a", "-", "2">>
        /\ CallMade(i, "DescribeInstances:group", TRUE)

\* the tag value is the decimal form of the integer n
IsDecimalOf(value, n) ==
    /\ Len(value) = 1
    /\ LET s == value[1]
           digits == IF Len(s) > 0 /\ s[1] = "-" THEN Tail(s) ELSE s
       IN  /\ Len(digits) > 0 /\ IsDigits(digits) /\ StripZeros(digits) = digits
           /\ FitsInt(digits)
           /\ n = IF digits = s THEN DigitsValue(digits) ELSE -DigitsValue(digits)

\* C9: a run without dry-run that ends with exit code zero has set the
\* hostname and the output tag to the computed hostname; in sequential mode
\* the sequential-id tag is the decimal form of the returned id, and in
\* instance-id mode no sequential-id tag was written.
C9_SuccessWritesAll ==
    \A i \in Instances :
        (pc[i] = "done" /\ ~cfg.dryRun)
            => /\ hostname[i] = v[i].Hostname
               /\ tags[i][cfg.outputTag] = Some(v[i].Hostname)
               /\ IF cfg.command = "sequential"
                  THEN IsDecimalOf(tags[i][SequentialIDTagName], v[i].SequentialID)
                  ELSE /\ tags[i][SequentialIDTagName] = atStart[i].tags[SequentialIDTagName]
                       /\ \A c \in calls[i] : c.op # "CreateTags:sequential-id"

C9_Witness ==
    \E i \in Instances :
        /\ pc[i] = "done" /\ ~cfg.dryRun /\ cfg.command = "sequential"
        /\ cfg.outputTag = "Hostname"
        /\ hostname[i] = <<"a", ".", "2">>
        /\ tags[i]["Hostname"] = Some(<<"a", ".", "2">>)
        /\ tags[i][SequentialIDTagName] = Some(<<"2">>)

\* C10 as stated: a run that ends with a fatal error has written nothing to
\* the tag store.
C10_FatalWroteNoTag ==
    \A i \in Instances :
        pc[i] = "fatal"
            => /\ tags[i] = atStart[i].tags
               /\ \A c \in calls[i] : ~(c.op \in TagWrites /\ c.ok)

\* C10 as amended: a run that ends with a fatal error has not written the
\* sequential-id tag.  It leaves either the tags as they were (the hostname
\* set or not), or, in sequential mode only, the hostname set and the
\* output tag written, the write of the sequential-id tag having failed.
C10_FatalWroteNoSequentialID ==
    \A i \in Instances :
        pc[i] = "fatal"
            => /\ \A c \in calls[i] : ~(c.op = "CreateTags:sequential-id" /\ c.ok)
               /\ hostname[i] \in {atStart[i].hostname, v[i].Hostname}
               /\ IF CallMade(i, "CreateTags:output", TRUE)
                  THEN /\ cfg.command = "sequential"
                       /\ CallMade(i, "CreateTags:sequential-id", FALSE)
                       /\ hostname[i] = v[i].Hostname
                       /\ tags[i] = [atStart[i].tags EXCEPT
                                        ![cfg.outputTag] = Some(v[i].Hostname)]
                  ELSE tags[i] = atStart[i].tags

C10_Witness ==
    \E i \in Instances :
        /\ pc[i] = "fatal"
        /\ CallMade(i, "CreateTags:output", TRUE)
        /\ CallMade(i, "CreateTags:sequential-id", FALSE)
        /\ tags[i][cfg.outputTag] = Some(v[i].Hostname)
        /\ tags[i][SequentialIDTagName] = None
        /\ tags[i] # atStart[i].tags

\* the calls of a run that go to the metadata service or to the EC2 API
RemoteCalls ==
    {"GetMetadata:availability-zone", "GetMetadata:instance-id",
     "DescribeInstances:input-tag", "DescribeTags:group",
     "DescribeInstances:group", "CreateTags:output", "CreateTags:sequential-id"}

\* a remote call of the run of i failed and no later attempt of the same
\* call succeeded
FailedRemoteCall(i) ==
    \E c \in calls[i] :
        c.op \in RemoteCalls /\ ~c.ok /\ ~CallMade(i, c.op, TRUE)

\* C11: every remote call is wrapped in the backoff retry loop: after a
\* failed remote call the run is fatal only once the backoff has saturated,
\* that is, with the last backoff delay at the maximum.
C11_FatalOnlyAfterSaturation ==
    \A i \in Instances :
        (pc[i] = "fatal" /\ FailedRemoteCall(i)) => d[i] = BackoffMax

\* the whole string has the shape <2 lowercase letters>-<word>-<digit><letter>
HasAZShape(s) ==
    /\ Len(s) >= 7
    /\ s[1] \in LowerLetters /\ s[2] \in LowerLetters /\ s[3] = "-"
    /\ \A m \in 4..(Len(s) - 3) : s[m] \in LowerLetters
    /\ s[Len(s) - 2] = "-"
    /\ s[Len(s) - 1] \in Digits
    /\ s[Len(s)] \in LowerLetters

\* C12: computeRegionFromAZ succeeds exactly on the strings whose whole
\* shape is <2 lowercase letters>-<word>-<digit><letter>, returning the
\* string without its last character, and fails on every other string.
C12_RegionExactlyOnAZShape ==
    (arg.fn = "computeRegionFromAZ" /\ ret # <<>>)
        => IF HasAZShape(arg.az)
           THEN /\ ret[1].err = "nil"
                /\ ret[1].region = SubSeq(arg.az, 1, Len(arg.az) - 1)
           ELSE /\ ret[1].err # "nil"
                /\ ret[1].region = <<>>

\* i has ended a run with exit code zero; an earlier run of i had written
\* its sequential-id tag, and no other instance has run since the group
\* was launched
RerunAmongUnchangedPeers(i) ==
    /\ pc[i] = "done"
    /\ runs[i] >= 2
    /\ atStart[i].tags[SequentialIDTagName] # None
    /\ \A j \in Instances \ {i} : runs[j] = 0

\* C13: a later run of the sequential command on an instance whose earlier
\* run succeeded, with the same configuration and unchanged peers, writes
\* the same hostname and the same sequential id: the hostname, the output
\* tag and the sequential-id tag are what they were when the re-run began.
C13_RerunChangesNothing ==
    \A i \in Instances :
        RerunAmongUnchangedPeers(i)
            => /\ hostname[i] = atStart[i].hostname
               /\ tags[i][cfg.outputTag] = atStart[i].tags[cfg.outputTag]
               /\ tags[i][SequentialIDTagName] = atStart[i].tags[SequentialIDTagName]

\* the run of i, in sequential mode with a base without numeric suffix, has
\* looked up its group tag, and the lookup answered with zero or with more
\* than one value
GroupTagNotUnique(i) ==
    /\ cfg.command = "sequential"
    /\ Computed(i)
    /\ ~EndsWithDashDigits(v[i].Base)
    /\ CallMade(i, "DescribeTags:group", TRUE)
    /\ Len(atStart[i].tags[cfg.groupTag]) # 1

\* C14: in sequential mode with a base without numeric suffix, when the
\* lookup of the group tag returns zero or several values the run is fatal
\* at once: no backoff delay is taken, the peers are not listed, no id is
\* allocated, and neither the hostname nor any tag is written.
C14_GroupTagNotUniqueIsFatal ==
    \A i \in Instances :
        GroupTagNotUnique(i)
            => /\ pc[i] = "fatal"
               /\ d[i] = 0 /\ attempt[i] = 0
               /\ \A c \in calls[i] :
                     c.op \notin {"DescribeInstances:group", "Sethostname"} \cup TagWrites
               /\ v[i].SequentialID = -1
               /\ hostname[i] = atStart[i].hostname
               /\ tags[i] = atStart[i].tags

C14_Witness ==
    \E i \in Instances :
        /\ GroupTagNotUnique(i)
        /\ atStart[i].tags[cfg.groupTag] = <<>>
        /\ v[i].Base = <<"a">>
        /\ pc[i] = "fatal"

\* the text is an integer: an optional sign and one or more digits
IsIntegerText(s) ==
    LET digits == IF Len(s) > 0 /\ s[1] \in {"-", "+"} THEN Tail(s) ELSE s
    IN  Len(digits) > 0 /\ \A k \in 1..Len(digits) : digits[k] \in Digits

\* the tags of j as the run of i found them: its own as the run began,
\* those of a peer as they are
TagsListedBy(i, j) == IF j = i THEN atStart[i].tags ELSE tags[j]

\* the run of i has listed its group, and an instance of the listing
\* carries a sequential-id tag that is not an integer
ListedNonInteger(i) ==
    /\ cfg.command = "sequential"
    /\ CallMade(i, "DescribeInstances:group", TRUE)
    /\ \E j \in Instances :
          /\ TagsListedBy(i, j)[cfg.groupTag] = atStart[i].tags[cfg.groupTag]
          /\ TagsListedBy(i, j)[cfg.sequentialIDTag] # None
          /\ ~IsIntegerText(TagsListedBy(i, j)[cfg.sequentialIDTag][1])

\* C15: when an instance of the peer listing carries a sequential-id tag
\* that is not an integer, whatever the other values, the allocation fails
\* and the run is fatal at once: no backoff delay is taken, no id is
\* returned, the hostname is not set and no tag is written.
C15_NonIntegerPeerIsFatal ==
    \A i \in Instances :
        ListedNonInteger(i)
            => /\ pc[i] = "fatal"
               /\ d[i] = 0 /\ attempt[i] = 0
               /\ v[i].SequentialID = -1
               /\ \A c \in calls[i] : c.op \notin {"Sethostname"} \cup TagWrites
               /\ hostname[i] = atStart[i].hostname
               /\ tags[i] = atStart[i].tags

C15_Witness ==
    \E i \in Instances :
        /\ ListedNonInteger(i)
        /\ pc[i] = "fatal"
        /\ atStart[i].tags[cfg.sequentialIDTag] = Some(<<"1">>)
        /\ \E j \in Instances \ {i} : tags[j][cfg.sequentialIDTag] = Some(<<"a">>)

\* the text is the decimal form of an integer that is at least 1
IsPositiveText(s) ==
    /\ Len(s) > 0
    /\ \A k \in 1..Len(s) : s[k] \in Digits
    /\ \E k \in 1..Len(s) : s[k] # "0"

\* the strategy of the run of i has returned without error
StrategyReturned(i) ==
    pc[i] \in {"setHostname", "setOutputTag", "setSequentialIDTag", "done"}

\* C16: every value a run of the sequential command returns as
\* SequentialID is at least 1, and every value it writes to the
\* sequential-id tag is the text of an integer that is at least 1, for
\* every base and every set of peer values.
C16_SequentialIDPositive ==
    \A i \in Instances :
        cfg.command = "sequential"
            => /\ StrategyReturned(i) => v[i].SequentialID >= 1
               /\ CallMade(i, "CreateTags:sequential-id", TRUE)
                     => /\ tags[i][cfg.sequentialIDTag] # None
                        /\ IsPositiveText(tags[i][cfg.sequentialIDTag][1])

Reads ==
    {"GetMetadata:availability-zone", "GetMetadata:instance-id",
     "DescribeInstances:input-tag", "DescribeTags:group", "DescribeInstances:group"}

Writes == {"Sethostname", "CreateTags:output", "CreateTags:sequential-id"}

Attempted(i, op) == \E c \in calls[i] : c.op = op

\* what the run of i has called so far is in the order of the claim: the
\* hostname is set only after the AZ, the instance ID and the input tag
\* were read, the output tag is written only after the hostname was set,
\* the sequential-id tag only in sequential mode after the output tag was
\* written, and nothing is written after a write that failed
WritesInOrder(i) ==
    /\ Attempted(i, "Sethostname")
          => /\ CallMade(i, "GetMetadata:availability-zone", TRUE)
             /\ CallMade(i, "GetMetadata:instance-id", TRUE)
             /\ CallMade(i, "DescribeInstances:input-tag", TRUE)
             /\ \A op \in TagQueries : Attempted(i, op) => CallMade(i, op, TRUE)
    /\ Attempted(i, "CreateTags:output")
          => CallMade(i, "Sethostname", TRUE) /\ ~CallMade(i, "Sethostname", FALSE)
    /\ Attempted(i, "CreateTags:sequential-id")
          => /\ cfg.command = "sequential"
             /\ CallMade(i, "CreateTags:output", TRUE)
             /\ ~CallMade(i, "CreateTags:output", FALSE)

\* once the run of i has attempted a write, the calls it adds are writes
NoReadAfterWrite(i) ==
    (\E c \in calls[i] : c.op \in Writes)
        => \A c \in calls'[i] \ calls[i] : c.op \in Writes

\* C17: in every run all reads of remote state happen before any write,
\* the writes happen in the order hostname, output tag, sequential-id tag
\* (the last in sequential mode only), each only if the earlier ones
\* succeeded, and no read follows a write.
C17_ReadsThenWritesInOrder ==
    /\ [](\A i \in Instances : WritesInOrder(i))
    /\ [][\A i \in Instances : NoReadAfterWrite(i)]_vars

C17_Witness ==
    \E i \in Instances :
        /\ pc[i] = "done"
        /\ CallMade(i, "DescribeInstances:group", TRUE)
        /\ CallMade(i, "Sethostname", TRUE)
        /\ CallMade(i, "CreateTags:output", TRUE)
        /\ CallMade(i, "CreateTags:sequential-id", TRUE)

\* the delay that follows the delay prev in the claim's sequence: the
\* minimum first (prev = 0: no delay taken yet), then twice the previous
\* one, capped at the maximum
NextDelay(prev) ==
    IF prev = 0 THEN BackoffMin
    ELSE IF 2 * prev > BackoffMax THEN BackoffMax
    ELSE 2 * prev

\* one step of the run of i, seen from the input-tag retry loop
RetryLoopStep(i) ==
    /\ (pc[i] = "getBase" /\ pc'[i] # "getBase")
          => \/ /\ [op |-> "DescribeInstances:input-tag", ok |-> TRUE] \in calls'[i]
                /\ pc'[i] = "compute"
                /\ attempt'[i] = 0
             \/ /\ [op |-> "DescribeInstances:input-tag", ok |-> FALSE] \in calls'[i]
                /\ pc'[i] \in {"sleep", "fatal"}
                /\ d'[i] = NextDelay(d[i])
    /\ (pc[i] = "sleep" /\ pc'[i] # "sleep")
          => pc'[i] = "getBase" /\ d'[i] = d[i] /\ calls'[i] = calls[i]

\* C18: in the input-tag retry loop a failed attempt is followed by a sleep
\* of the next backoff delay (100ms first, doubling up to the cap of 120s)
\* and then by another attempt; the attempt that succeeds resets the
\* backoff, which stays reset during every later call of the run; the loop
\* is left only by success or by a fatal exit.
C18_BackoffDoublesAndResets ==
    /\ [](\A i \in Instances :
             CallMade(i, "DescribeInstances:input-tag", TRUE) => attempt[i] = 0)
    /\ [][\A i \in Instances : RetryLoopStep(i)]_vars

C18_Witness ==
    \E i \in Instances :
        /\ pc[i] = "sleep"
        /\ d[i] = BackoffMax
        /\ attempt[i] > 12
        /\ ~CallMade(i, "DescribeInstances:input-tag", TRUE)

\* C19: the instance-id strategy completes without a runtime fault for
\* every base, with a length within the usable part of the instance ID; a
\* base shorter than the length (the empty base included) cannot end with
\* the suffix, so the result is base + separator + suffix.
C19_ShortBaseGetsSuffix ==
    (/\ arg.fn = "computeHostnameWithInstanceID"
     /\ ret # <<>>
     /\ arg.length <= Len(arg.instanceID) - 2)
        => /\ ~ret[1].panic
           /\ Len(arg.base) < arg.length
                 => ret[1].hostname =
                       arg.base \o arg.separator \o SubSeq(arg.instanceID, 3, 2 + arg.length)

=============================================================================
